---- MODULE Spec2Model ----
(***************************************************************************)
(* A model of iss_tracker.py: the process-wide dataset `data`, the Flask   *)
(* request handlers that read it, and the two handlers that rebind it.     *)
(*                                                                         *)
(* Representation.  An epoch identifier (a 'YYYY-DDDThh:mm:ss.fffZ'        *)
(* string) is a number in EpochIds.  A Python value that may be an int or  *)
(* a str (a query parameter before and after int()) is a record            *)
(* [t, n, s].  A handler's outcome is a record [kind, items, text, rec,    *)
(* num]: a returned list, str, dict or None, or a raised exception.        *)
(***************************************************************************)
EXTENDS Integers, Sequences, FiniteSets, TLC

VARIABLES data, last, rd

vars == <<data, last, rd>>

\* Bounds of the model.
MaxEpoch == 2
MaxLen == 2
MaxArg == 2

EpochIds == 1..MaxEpoch

\* The identifiers a request names: those the feed carries and one it never
\* carries.
RequestEpochs == 1..(MaxEpoch + 1)

----------------------------------------------------------------------------
\* Python values

PyInt(n) == [t |-> "int", n |-> n, s |-> ""]
PyStr(s) == [t |-> "str", n |-> 0, s |-> s]

\* bool(x) of an int or a str, as `if offset:` and `if limit:` evaluate it.
Truthy(x) == IF x.t = "int" THEN x.n # 0 ELSE x.s # ""

\* x == y of two such values: an int never equals a str.
PyEq(x, y) == x.t = y.t /\ x.n = y.n /\ x.s = y.s

\* The decimal numerals the requests of the model carry.
Numerals == { ToString(n) : n \in 0..MaxArg }

\* The strings a query parameter takes: numerals, the empty string
\* (`?limit=`) and a word.
ParamStrings == Numerals \cup {"", "abc"}

\* int(x): an int is itself; a str is its number when it is a numeral and
\* raises ValueError otherwise ("" and "abc").
IntOf(x) ==
    IF x.t = "int" THEN [ok |-> TRUE, n |-> x.n]
    ELSE IF x.s \in Numerals
         THEN [ok |-> TRUE, n |-> CHOOSE n \in 0..MaxArg : ToString(n) = x.s]
         ELSE [ok |-> FALSE, n |-> 0]

\* request.args: the query parameters present on the request.
ArgSets ==
    UNION { [ks -> ParamStrings] : ks \in SUBSET {"offset", "limit"} }

NoArgs == CHOOSE a \in ArgSets : DOMAIN a = {}

\* request.args.get(key, default)
ArgsGet(args, key, default) ==
    IF key \in DOMAIN args THEN PyStr(args[key]) ELSE default

----------------------------------------------------------------------------
\* Outcomes of a handler

NoRec == [EPOCH |-> 0, X |-> 0, Y |-> 0, Z |-> 0,
          X_DOT |-> 0, Y_DOT |-> 0, Z_DOT |-> 0]

RList(items) ==
    [kind |-> "list", items |-> items, text |-> "", rec |-> NoRec, num |-> 0]
RStr(text) ==
    [kind |-> "str", items |-> <<>>, text |-> text, rec |-> NoRec, num |-> 0]
RDict(tag, rec, num) ==
    [kind |-> "dict", items |-> <<>>, text |-> tag, rec |-> rec, num |-> num]
RNone ==
    [kind |-> "none", items |-> <<>>, text |-> "", rec |-> NoRec, num |-> 0]
Raise(exc) ==
    [kind |-> "raise", items |-> <<>>, text |-> exc, rec |-> NoRec, num |-> 0]

OffsetError == "Error: Offset parameter must be greater than 0."
LimitError == "Error: Limit parameter must be greater than 0."
InvalidEpochNl == "Please enter a valid Epoch time stamp.\n"
InvalidEpoch == "Please enter a valid Epoch time stamp."
DeletedStatement == "NASA ISS trajectory data set has been deleted.\n"
ReloadedStatement == "NASA ISS Trajectory data set has been reloaded.\n"

----------------------------------------------------------------------------
\* The upstream document and xmltodict.parse

\* The state vector the feed carries for epoch e.
StateVectorOf(e) ==
    [EPOCH |-> e, X |-> 0, Y |-> 0, Z |-> 0,
     X_DOT |-> 3 * e, Y_DOT |-> 4 * e, Z_DOT |-> 0]

\* Sequences of distinct epoch identifiers, one to MaxLen long: the
\* stateVector elements of an ephemeris document.
EpochSeqs ==
    { s \in UNION { [1..n -> EpochIds] : n \in 1..MaxLen } :
        \A i, j \in DOMAIN s : i # j => s[i] # s[j] }

\* What requests.get(url) comes to: a connection error, or a response whose
\* text is an ephemeris document, another well-formed XML document (the
\* bucket's <Error> document of a 403 or 404) or no well-formed XML.
FetchOutcomes ==
    { [net |-> "error", body |-> "", epochs |-> <<>>] }
    \cup { [net |-> "ok", body |-> "oem", epochs |-> s] : s \in EpochSeqs }
    \cup { [net |-> "ok", body |-> "error_xml", epochs |-> <<>>],
           [net |-> "ok", body |-> "not_xml", epochs |-> <<>>] }

\* data = [] once delete_data has run.
EmptyList == [kind |-> "list", shape |-> "", recs |-> <<>>]

\* xmltodict.parse(response.text).  Repeated sibling elements become a list
\* of dicts; an element that occurs once becomes the dict itself, so a
\* document with one stateVector has a dict where the others have a list.
\* A document that is not an ephemeris parses to a dict without 'ndm'.
Parse(f) ==
    IF f.body = "oem"
    THEN [kind |-> "oem",
          shape |-> IF Len(f.epochs) = 1 THEN "dict" ELSE "list",
          recs |-> [i \in DOMAIN f.epochs |-> StateVectorOf(f.epochs[i])]]
    ELSE [kind |-> "other", shape |-> "", recs |-> <<>>]

\* Whether requests.get and xmltodict.parse both return.
Parses(f) == f.net = "ok" /\ f.body # "not_xml"

Stores == { Parse(f) : f \in { g \in FetchOutcomes : Parses(g) } }

----------------------------------------------------------------------------
\* Reading the dataset

\* data['ndm']['oem']['body']['segment']['data']['stateVector']: what the
\* subscripts come to.  On [] the first one raises TypeError (a list takes
\* no str index); on a dict without 'ndm' it raises KeyError.
Subscript(d) ==
    IF d.kind = "oem" THEN "ok"
    ELSE IF d.kind = "list" THEN "TypeError"
    ELSE "KeyError"

\* What `for d in <stateVector>` yields: the records of a list, the seven
\* keys of a dict.
IterItems(d) ==
    IF d.shape = "list"
    THEN [i \in DOMAIN d.recs |-> [t |-> "rec", rec |-> d.recs[i]]]
    ELSE [i \in 1..Cardinality(DOMAIN d.recs[1]) |-> [t |-> "key", rec |-> NoRec]]

\* len(<stateVector>): the records of a list, the keys of a dict.
LenStateVector(d) == Len(IterItems(d))

\* The loop of epochs(), from its i-th item on.  `count == limit` is False
\* for a limit that is still a str; `offset_count >= offset` raises
\* TypeError for an offset that is still a str; d['EPOCH'] raises TypeError
\* for d a key of the dict.
RECURSIVE EpochsLoop(_, _, _, _, _, _, _)
EpochsLoop(items, i, offset, limit, epochsList, count, offset_count) ==
    IF i > Len(items) THEN RList(epochsList)
    ELSE IF PyEq(PyInt(count), limit) THEN RList(epochsList)
    ELSE IF offset.t = "str" THEN Raise("TypeError")
    ELSE IF offset_count >= offset.n
         THEN IF items[i].t = "key" THEN Raise("TypeError")
              ELSE EpochsLoop(items, i + 1, offset, limit,
                              Append(epochsList, items[i].rec.EPOCH),
                              count + 1, offset_count + 1)
         ELSE EpochsLoop(items, i + 1, offset, limit, epochsList,
                         count, offset_count + 1)

\* Lines 48-58 for one parameter: int() of a truthy value, the value itself
\* when it is falsy (0 or '').
Convert(x) ==
    IF Truthy(x)
    THEN IF IntOf(x).ok THEN [ok |-> TRUE, v |-> PyInt(IntOf(x).n)]
         ELSE [ok |-> FALSE, v |-> x]
    ELSE [ok |-> TRUE, v |-> x]

\* Lines 45-58 of epochs(), on the dataset d46 that line 46 reads.  The
\* default of limit is evaluated whether or not the request carries a limit.
\* Gives the outcome that ends the request, or the offset and limit to loop
\* with.
EpochsParams(d46, args) ==
    IF Subscript(d46) # "ok"
    THEN [done |-> TRUE, res |-> Raise(Subscript(d46)),
          offset |-> PyInt(0), limit |-> PyInt(0)]
    ELSE LET offset == Convert(ArgsGet(args, "offset", PyInt(0)))
             limit == Convert(ArgsGet(args, "limit", PyInt(LenStateVector(d46))))
         IN IF ~offset.ok
            THEN [done |-> TRUE, res |-> RStr(OffsetError),
                  offset |-> offset.v, limit |-> limit.v]
            ELSE IF ~limit.ok
            THEN [done |-> TRUE, res |-> RStr(LimitError),
                  offset |-> offset.v, limit |-> limit.v]
            ELSE [done |-> FALSE, res |-> RNone,
                  offset |-> offset.v, limit |-> limit.v]

\* Lines 60-74 of epochs(), on the dataset d64 that line 64 reads.
EpochsIterate(d64, offset, limit) ==
    IF Subscript(d64) # "ok" THEN Raise(Subscript(d64))
    ELSE EpochsLoop(IterItems(d64), 1, offset, limit, <<>>, 0, 0)

\* epochs() with the three reads of the global: line 41, line 46, line 64.
EpochsReads(d41, d46, d64, args) ==
    IF d41 = EmptyList THEN RList(<<>>)
    ELSE LET p == EpochsParams(d46, args)
         IN IF p.done THEN p.res
            ELSE EpochsIterate(d64, p.offset, p.limit)

\* epochs() when nothing rebinds the global during the request.
Epochs(d, args) == EpochsReads(d, d, d, args)

\* The index of the first record of `recs` whose EPOCH is `epoch`, 0 when
\* there is none: `epoch in allEpochs` and allEpochs.index(epoch).
IndexOf(recs, epoch) ==
    IF \E i \in DOMAIN recs : recs[i].EPOCH = epoch
    THEN CHOOSE i \in DOMAIN recs :
            /\ recs[i].EPOCH = epoch
            /\ \A j \in 1..(i - 1) : recs[j].EPOCH # epoch
    ELSE 0

\* state_vector(epoch).  The loop of line 93 reads d['EPOCH'] of every item,
\* so the dict of a one-record document raises TypeError at its first key.
StateVector(d, epoch) ==
    IF d = EmptyList THEN RList(<<>>)
    ELSE IF Subscript(d) # "ok" THEN Raise(Subscript(d))
    ELSE IF d.shape = "dict" THEN Raise("TypeError")
    ELSE IF IndexOf(d.recs, epoch) # 0
         THEN RDict("stateVector", d.recs[IndexOf(d.recs, epoch)], 0)
         ELSE RStr(InvalidEpochNl)

\* `epoch in allEpochs` for what epochs() returned: membership in a list; in
\* one of the two error strings, a substring test, which no epoch
\* identifier passes.
EpochIn(epoch, r) ==
    r.kind = "list" /\ \E i \in DOMAIN r.items : r.items[i] = epoch

\* math.sqrt on the perfect squares the model's velocities give.
Sqrt(n) == CHOOSE r \in 0..n : r * r = n

\* speed(epoch): membership is decided by epochs(), which applies the
\* offset and limit of the request in flight.
Speed(d, args, epoch) ==
    IF d = EmptyList THEN RList(<<>>)
    ELSE LET allEpochs == Epochs(d, args)
         IN IF allEpochs.kind = "raise" THEN allEpochs
            ELSE IF EpochIn(epoch, allEpochs)
            THEN LET epochData == StateVector(d, epoch)
                 IN IF epochData.kind # "dict" THEN Raise("TypeError")
                    ELSE RDict("speed", NoRec,
                               Sqrt(epochData.rec.X_DOT * epochData.rec.X_DOT
                                    + epochData.rec.Y_DOT * epochData.rec.Y_DOT
                                    + epochData.rec.Z_DOT * epochData.rec.Z_DOT))
            ELSE RStr(InvalidEpoch)

\* Lines 284-287 of location(): the LONGITUDE entry of locationData for a
\* raw longitude in degrees.  There is no else branch, so a longitude
\* within [-180, 180] leaves the key unset.
LongitudeEntry(longitude) ==
    IF longitude > 180 THEN [set |-> TRUE, v |-> longitude - 360]
    ELSE IF longitude < -180 THEN [set |-> TRUE, v |-> longitude + 360]
    ELSE [set |-> FALSE, v |-> 0]

\* The body of location(epoch).  Line 274 subscripts the function
\* state_vector instead of epochData, which raises TypeError before any
\* coordinate is computed; an epoch that epochs() does not list falls off
\* the end of the function, which returns None.
LocationBody(d, args, epoch) ==
    IF d = EmptyList THEN RList(<<>>)
    ELSE LET allEpochs == Epochs(d, args)
         IN IF allEpochs.kind = "raise" THEN allEpochs
            ELSE IF EpochIn(epoch, allEpochs) THEN Raise("TypeError")
            ELSE RNone

\* The URL variable of the location rule and the parameter of the view.
RouteVariable == "epochs"
ViewParameter == "epoch"

\* GET /epochs/<epochs>/location: Flask calls the view with the URL
\* variables as keyword arguments, and location() takes no `epochs`.
Location(d, args, epoch) ==
    IF RouteVariable # ViewParameter THEN Raise("TypeError")
    ELSE LocationBody(d, args, epoch)

\* The instant of an epoch identifier, in the unit of the clock: the model
\* numbers the identifiers by their instants.
EpochSeconds(e) == e

\* What time.time() returns: instants before, at and after the epochs.
Clock == 0..(MaxEpoch + 1)

\* now() at instant t: line 312 subscripts the dataset before the emptiness
\* check of line 315, and line 320 calls time.time() and then reads data[0]
\* of a dict, which raises KeyError, so that the scan of lines 323-333 is
\* never entered.
Now(d, t) ==
    IF Subscript(d) # "ok" THEN Raise(Subscript(d))
    ELSE Raise("KeyError")

\* entire_data_set(): the dataset itself.
EntireDataSet(d) ==
    IF d = EmptyList THEN RList(<<>>) ELSE RDict(d.kind, NoRec, 0)

\* comment_list(), header_dict() and metadata(): [] for a cleared dataset,
\* else the part of the document that `part` names.
Auxiliary(d, part) ==
    IF d = EmptyList THEN RList(<<>>)
    ELSE IF Subscript(d) # "ok" THEN Raise(Subscript(d))
    ELSE IF part = "COMMENT" THEN [RList(<<>>) EXCEPT !.text = part]
    ELSE RDict(part, NoRec, 0)

----------------------------------------------------------------------------
\* Requests served one at a time

NoFetch == [net |-> "", body |-> "", epochs |-> <<>>]

\* The record of a served request: the handler, its inputs, the dataset it
\* found, and its outcome.
Served(op, args, epoch, clock, fetch, pre, res) ==
    [op |-> op, args |-> args, epoch |-> epoch, clock |-> clock,
     fetch |-> fetch, pre |-> pre, res |-> res]

Idle ==
    [pc |-> "idle", args |-> NoArgs, offset |-> PyInt(0), limit |-> PyInt(0),
     d0 |-> EmptyList, d1 |-> EmptyList, raced |-> FALSE, res |-> RNone]

\* Lines 13-14: the module fetches and parses the document when it is
\* imported; the process starts only if both return.
Init ==
    /\ data \in Stores
    /\ last = Served("import", NoArgs, 0, 0, NoFetch, data, RNone)
    /\ rd = Idle

\* A handler without `global data` answers and leaves the dataset bound as
\* it was.
Answer(op, args, epoch, res) ==
    /\ last' = Served(op, args, epoch, 0, NoFetch, data, res)
    /\ UNCHANGED <<data, rd>>

EntireDataSetRequest ==
    Answer("entire_data_set", NoArgs, 0, EntireDataSet(data))

\* An epochs() that takes the records it lists out of the dataset.
EpochsRequestConsuming ==
    \E args \in ArgSets :
        /\ last' = Served("epochs", args, 0, 0, NoFetch, data, Epochs(data, args))
        /\ data' = IF Epochs(data, args).kind = "list"
                      /\ Len(Epochs(data, args).items) > 0
                   THEN EmptyList
                   ELSE data
        /\ UNCHANGED rd

EpochsRequest ==
    \E args \in ArgSets : Answer("epochs", args, 0, Epochs(data, args))

StateVectorRequest ==
    \E epoch \in RequestEpochs :
        Answer("state_vector", NoArgs, epoch, StateVector(data, epoch))

SpeedRequest ==
    \E args \in ArgSets, epoch \in RequestEpochs :
        Answer("speed", args, epoch, Speed(data, args, epoch))

LocationRequest ==
    \E args \in ArgSets, epoch \in RequestEpochs :
        Answer("location", args, epoch, Location(data, args, epoch))

NowRequest ==
    \E t \in Clock :
        /\ last' = Served("now", NoArgs, 0, t, NoFetch, data, Now(data, t))
        /\ UNCHANGED <<data, rd>>

CommentRequest == Answer("comment", NoArgs, 0, Auxiliary(data, "COMMENT"))

HeaderRequest == Answer("header", NoArgs, 0, Auxiliary(data, "header"))

MetadataRequest == Answer("metadata", NoArgs, 0, Auxiliary(data, "metadata"))

HelpRequest == Answer("help", NoArgs, 0, RStr("helpText"))

\* delete_data(): rebinds the global to [].
DeleteDataRequest ==
    /\ data' = EmptyList
    /\ last' = Served("delete_data", NoArgs, 0, 0, NoFetch, data,
                      RStr(DeletedStatement))
    /\ UNCHANGED rd

\* What post_data() binds the global to and what it answers, for the
\* outcome f of its fetch: requests.get raises on a connection error and
\* xmltodict.parse on text that is not well-formed XML, both before the
\* assignment; the status of the response is not looked at.
PostData(d, f) ==
    IF f.net = "error" THEN [data |-> d, res |-> Raise("ConnectionError")]
    ELSE IF f.body = "not_xml" THEN [data |-> d, res |-> Raise("ExpatError")]
    ELSE [data |-> Parse(f), res |-> RStr(ReloadedStatement)]

PostDataRequest ==
    \E f \in FetchOutcomes :
        /\ data' = PostData(data, f).data
        /\ last' = Served("post_data", NoArgs, 0, 0, f, data,
                          PostData(data, f).res)
        /\ UNCHANGED rd

Next ==
    \/ EntireDataSetRequest
    \/ EpochsRequest
    \/ StateVectorRequest
    \/ SpeedRequest
    \/ LocationRequest
    \/ NowRequest
    \/ CommentRequest
    \/ HeaderRequest
    \/ MetadataRequest
    \/ HelpRequest
    \/ DeleteDataRequest
    \/ PostDataRequest

Spec == Init /\ [][Next]_vars

----------------------------------------------------------------------------
\* A request for /epochs served by one thread while another thread rebinds
\* the global.  The reader takes a step at each of its reads of `data`
\* (lines 41, 46 and 64); the list that line 64 starts iterating is never
\* changed in place, so the loop is one step.  rd.d0 is the dataset bound
\* when the request began and rd.d1 the one bound by the rebinding that
\* raced it; one rebinding at most is taken during a request.

RdBegin ==
    \E args \in ArgSets :
        /\ rd.pc = "idle"
        /\ rd' = IF data = EmptyList
                 THEN [Idle EXCEPT !.pc = "done", !.args = args, !.d0 = data,
                                   !.d1 = data, !.res = RList(<<>>)]
                 ELSE [Idle EXCEPT !.pc = "l45", !.args = args, !.d0 = data,
                                   !.d1 = data]
        /\ UNCHANGED <<data, last>>

RdParams ==
    /\ rd.pc = "l45"
    /\ LET p == EpochsParams(data, rd.args)
       IN rd' = IF p.done
                THEN [rd EXCEPT !.pc = "done", !.res = p.res]
                ELSE [rd EXCEPT !.pc = "l60", !.offset = p.offset,
                                !.limit = p.limit]
    /\ UNCHANGED <<data, last>>

RdIterate ==
    /\ rd.pc = "l60"
    /\ rd' = [rd EXCEPT !.pc = "done",
                        !.res = EpochsIterate(data, rd.offset, rd.limit)]
    /\ UNCHANGED <<data, last>>

RdReturn ==
    /\ rd.pc = "done"
    /\ rd' = Idle
    /\ UNCHANGED <<data, last>>

\* The assignment to the global of line 171 or line 189, seen by a request
\* in flight.
Rebind(new) ==
    /\ rd.pc \in {"l45", "l60"} => ~rd.raced
    /\ data' = new
    /\ rd' = IF rd.pc \in {"l45", "l60"}
             THEN [rd EXCEPT !.d1 = new, !.raced = TRUE]
             ELSE rd
    /\ UNCHANGED last

DeleteDataThread == Rebind(EmptyList)

PostDataThread ==
    \E f \in FetchOutcomes : Parses(f) /\ Rebind(PostData(data, f).data)

NextThreaded ==
    \/ RdBegin
    \/ RdParams
    \/ RdIterate
    \/ RdReturn
    \/ DeleteDataThread
    \/ PostDataThread

SpecThreaded == Init /\ [][NextThreaded]_vars

----------------------------------------------------------------------------
\* Properties

Min(a, b) == IF a <= b THEN a ELSE b
Max(a, b) == IF a >= b THEN a ELSE b
Abs(a) == IF a >= 0 THEN a ELSE -a

\* The epoch identifiers of a dataset, in document order.
EpochsOf(d) == [i \in DOMAIN d.recs |-> d.recs[i].EPOCH]

\* A query parameter that is absent or a non-negative integer, and its
\* value.
IsNatural(args, key) == key \in DOMAIN args => args[key] \in Numerals
ValueOf(args, key, default) ==
    IF key \in DOMAIN args THEN IntOf(PyStr(args[key])).n ELSE default

\* A query parameter that is supplied and is no integer.
IsNoInteger(args, key) == key \in DOMAIN args /\ ~IntOf(PyStr(args[key])).ok

\* The slice of claim C1 for the request `args` on the dataset d.
SliceOf(d, args) ==
    LET n == Len(d.recs)
        offset == ValueOf(args, "offset", 0)
        limit == ValueOf(args, "limit", n)
        k == Min(limit, Max(0, n - offset))
    IN SubSeq(EpochsOf(d), offset + 1, offset + k)

QueryOps ==
    {"epochs", "state_vector", "speed", "location", "now", "comment",
     "header", "metadata"}

\* C1: on a non-empty store of n records, /epochs with non-negative integer
\* (or omitted) offset and limit returns the identifiers at positions
\* offset .. offset+k-1 in store order, k = min(limit, max(0, n - offset)).
EpochsReturnsSlice ==
    (/\ last.op = "epochs"
     /\ last.pre.kind = "oem"
     /\ IsNatural(last.args, "offset")
     /\ IsNatural(last.args, "limit"))
    => last.res = RList(SliceOf(last.pre, last.args))

\* The statement of C1 for the documents that carry two or more state
\* vectors, which xmltodict parses to a list.
EpochsReturnsSliceOfList ==
    (/\ last.op = "epochs"
     /\ last.pre.shape = "list"
     /\ IsNatural(last.args, "offset")
     /\ IsNatural(last.args, "limit"))
    => last.res = RList(SliceOf(last.pre, last.args))

\* A request for which the slice is a proper, non-empty part of the store.
EpochsSliceReached ==
    /\ last.op = "epochs"
    /\ last.pre.shape = "list"
    /\ "offset" \in DOMAIN last.args
    /\ last.res.kind = "list"
    /\ Len(last.res.items) = 1
    /\ last.res.items[1] = last.pre.recs[2].EPOCH

\* C2: once delete-data has cleared the store, every query operation
\* returns the no-data result and none raises.
ClearedStoreAnswersNoData ==
    (last.op \in QueryOps /\ last.pre = EmptyList) => last.res = RList(<<>>)

\* C3: the result of a read that a rebinding of the store raced is the
\* result of the whole read on the store before it or on the store after
\* it.
ReadSeesOneStore ==
    rd.pc = "done" =>
        \/ rd.res = Epochs(rd.d0, rd.args)
        \/ rd.res = Epochs(rd.d1, rd.args)

\* C4: when the fetch of post-data fails or delivers no ephemeris document,
\* the store stays as it was and the answer is not the reloaded statement.
FailedFetchLeavesStore ==
    (/\ last.op = "post_data"
     /\ ~(last.fetch.net = "ok" /\ last.fetch.body = "oem"))
    => (data = last.pre /\ last.res # RStr(ReloadedStatement))

\* C5: an offset or limit that is supplied and does not parse as an integer
\* makes /epochs return the error result, never a list.
InvalidParameterSignalled ==
    (/\ last.op = "epochs"
     /\ last.pre.shape = "list"
     /\ IsNoInteger(last.args, "offset") \/ IsNoInteger(last.args, "limit"))
    => (last.res.kind = "str" /\ last.res.text \in {OffsetError, LimitError})

\* C6: on a non-empty store state_vector(e) returns the record whose EPOCH
\* is e, the not-found result when there is none, and finds every
\* identifier that epochs() returned.
StateVectorFindsRecord ==
    /\ (last.op = "state_vector" /\ last.pre.kind = "oem") =>
          IF \E i \in DOMAIN last.pre.recs : last.pre.recs[i].EPOCH = last.epoch
          THEN /\ last.res.kind = "dict"
               /\ last.res.rec.EPOCH = last.epoch
               /\ \E i \in DOMAIN last.pre.recs : last.pre.recs[i] = last.res.rec
          ELSE last.res = RStr(InvalidEpochNl)
    /\ (last.op = "epochs" /\ last.pre.kind = "oem" /\ last.res.kind = "list") =>
          \A i \in DOMAIN last.res.items :
              /\ StateVector(last.pre, last.res.items[i]).kind = "dict"
              /\ StateVector(last.pre, last.res.items[i]).rec.EPOCH
                    = last.res.items[i]

\* The statement of C6 for the documents that carry two or more state
\* vectors.
StateVectorFindsRecordOfList ==
    /\ (last.op = "state_vector" /\ last.pre.shape = "list") =>
          IF \E i \in DOMAIN last.pre.recs : last.pre.recs[i].EPOCH = last.epoch
          THEN /\ last.res.kind = "dict"
               /\ last.res.rec.EPOCH = last.epoch
               /\ \E i \in DOMAIN last.pre.recs : last.pre.recs[i] = last.res.rec
          ELSE last.res = RStr(InvalidEpochNl)
    /\ (last.op = "epochs" /\ last.pre.shape = "list" /\ last.res.kind = "list") =>
          \A i \in DOMAIN last.res.items :
              /\ StateVector(last.pre, last.res.items[i]).kind = "dict"
              /\ StateVector(last.pre, last.res.items[i]).rec.EPOCH
                    = last.res.items[i]

\* C7: on a non-empty store now() returns the first record in store order
\* that minimizes abs(now - epochTime), with the signed difference of that
\* record.
NowReturnsNearest ==
    (last.op = "now" /\ last.pre.kind = "oem") =>
        /\ last.res.kind = "dict"
        /\ \E i \in DOMAIN last.pre.recs :
              /\ last.res.rec = last.pre.recs[i]
              /\ last.res.num = last.clock - EpochSeconds(last.pre.recs[i].EPOCH)
              /\ \A j \in DOMAIN last.pre.recs :
                    /\ Abs(last.res.num)
                          <= Abs(last.clock - EpochSeconds(last.pre.recs[j].EPOCH))
                    /\ j < i => Abs(last.res.num)
                          < Abs(last.clock - EpochSeconds(last.pre.recs[j].EPOCH))

\* C8: for a state vector found in the store, location() gives a result
\* with a LONGITUDE in [-180, 180], the raw longitude moved by 360 when it
\* lies outside and kept when it lies inside.
LocationGivesLongitude ==
    (last.op = "location" /\ StateVector(last.pre, last.epoch).kind = "dict") =>
        /\ last.res.kind = "dict"
        /\ last.res.num \in -180..180
        /\ \A raw \in -360..540 :
              /\ LongitudeEntry(raw).set
              /\ LongitudeEntry(raw).v =
                    IF raw > 180 THEN raw - 360
                    ELSE IF raw < -180 THEN raw + 360
                    ELSE raw

\* C9: no query operation changes the store; only post-data and
\* delete-data rebind it.
QueriesLeaveStore ==
    (last.op \in QueryOps \cup {"entire_data_set"}) => data = last.pre

\* A query that returned records of a store that is still bound.
QueryServedFromStore ==
    /\ last.op = "epochs"
    /\ last.res.kind = "list"
    /\ Len(last.res.items) = 2
    /\ data = last.pre

\* C10: speed(e) returns a speed exactly when state_vector(e) returns a
\* record, and the not-found message otherwise, whatever offset and limit
\* the request carries.
SpeedAgreesWithStateVector ==
    (last.op = "speed" /\ last.pre.shape = "list") =>
        IF StateVector(last.pre, last.epoch).kind = "dict"
        THEN last.res.kind = "dict" /\ last.res.text = "speed"
        ELSE last.res = RStr(InvalidEpoch)

====
